---- MODULE Spec2Model ----
(***************************************************************************)
(* Terminal capability shims of fltr:                                      *)
(*   Sources/FltrCSystem/include/shims.h   fltr_ioctl_TIOCGWINSZ,          *)
(*                                         fltr_termios_setVMIN,           *)
(*                                         fltr_termios_setVTIME           *)
(*   Sources/BokehCSystem/include/shims.h  bokeh_ioctl_TIOCGWINSZ          *)
(*                                                                         *)
(* Caller threads own one struct termios and one struct winsize each and   *)
(* call the shims on them.  The operating system is the environment: it    *)
(* holds a descriptor table and the window size of the terminal, answers   *)
(* ioctl(fd, TIOCGWINSZ, ws), and may resize the terminal at any time.     *)
(***************************************************************************)
EXTENDS Integers, Sequences, FiniteSets, TLC

(* ------------------------------ bounds --------------------------------- *)

\* Setter arguments are drawn from 0..MaxValue.
MaxValue == 2
\* The terminal is unsized (0 x 0) or d rows by d + 1 columns, d in 1..MaxDim.
MaxDim == 1
\* Total number of shim calls made in one behaviour.
MaxCalls == 2

(* ------------------------------- state --------------------------------- *)

VARIABLES
    platform,    \* the build target: fixes the layout of struct termios
    fdKind,      \* OS: what each descriptor number refers to
    ttySize,     \* OS: the window size the kernel holds for the terminal
    init0,       \* the contents the callers' records had before any call
    termiosMem,  \* callers' memory: thread -> its struct termios
    wsMem,       \* callers' memory: thread -> its struct winsize
    frame,       \* argument storage of a call in progress, by slot
    pc,          \* thread -> "idle" | "called"
    status,      \* thread -> the int its last get-window-size call returned
    errno,       \* thread -> its (thread-local) errno
    hist,        \* thread -> the calls it has made, in order
    pre,         \* thread -> its two records as they were when its last call began
    oslog,       \* thread -> the OS requests issued during its last call
    calls        \* number of calls made so far

vars == <<platform, fdKind, ttySize, init0, termiosMem, wsMem, frame, pc,
          status, errno, hist, pre, oslog, calls>>

(* ----------------------------- platforms ------------------------------- *)

\* The layouts the header names: macOS, and Linux with glibc or musl.
Platforms == {"macos", "linux"}

\* Length of c_cc.
NCCS == IF platform = "macos" THEN 20 ELSE 32

VMIN_collides == IF platform = "macos" THEN 16 ELSE 5
\* Index of the minimum-read-count slot.
VMIN == IF platform = "macos" THEN 16 ELSE 6

\* Index of the read-timeout slot.
VTIME == IF platform = "macos" THEN 17 ELSE 5

(* ------------------------------ records -------------------------------- *)

Threads == {1, 2}

\* The descriptor numbers callers pass: a terminal, a regular file, a closed one.
FDs == {0, 1, 2}

\* The setters' arguments: cc_t values (an unsigned char, 0..255), stored as
\* passed.
Values == 0..MaxValue

winsize(r, c, x, y) == [ws_row |-> r, ws_col |-> c, ws_xpixel |-> x, ws_ypixel |-> y]

ZeroWinsize == winsize(0, 0, 0, 0)

PriorWinsize == winsize(24, 80, 640, 480)

\* The window sizes the kernel may hold for the terminal.
Sizes == {ZeroWinsize} \cup {winsize(d, d + 1, 0, 0) : d \in 1..MaxDim}

ZeroTermios ==
    [c_iflag |-> 0, c_oflag |-> 0, c_cflag |-> 0, c_lflag |-> 0,
     c_cc |-> [i \in 0..(NCCS - 1) |-> 0], c_ispeed |-> 0, c_ospeed |-> 0]

PriorTermios ==
    [c_iflag |-> 11010, c_oflag |-> 3, c_cflag |-> 19200, c_lflag |-> 1483,
     c_cc |-> [i \in 0..(NCCS - 1) |-> (7 * i + 3) % 256],
     c_ispeed |-> 38400, c_ospeed |-> 38400]

\* A call: the operation, the header it comes from, its value or descriptor
\* argument and, for get-window-size, the terminal's size when the call ran.
Call(op, shim, arg) == [op |-> op, shim |-> shim, arg |-> arg, size |-> ZeroWinsize]

NoCall == Call("none", "none", 0)

NoStatus == "none"

(* ------------------------- operating system ---------------------------- *)

TIOCGWINSZ == "TIOCGWINSZ"

\* The OS's answer to ioctl(fd, request, ws) when the record holds `ws`: the
\* status, the errno it sets ("none": errno is left alone), whether it wrote
\* the record, and the record afterwards.
ioctl(kinds, size, fd, request, ws) ==
    IF fd \notin DOMAIN kinds \/ kinds[fd] = "closed"
    THEN [ret |-> -1, err |-> "EBADF", wrote |-> FALSE, ws |-> ws]
    ELSE IF kinds[fd] # "tty" \/ request # TIOCGWINSZ
    THEN [ret |-> -1, err |-> "ENOTTY", wrote |-> FALSE, ws |-> ws]
    ELSE [ret |-> 0, err |-> "none", wrote |-> TRUE, ws |-> size]

\* One entry of the log of OS requests.
Request(fd, request, r) ==
    [request |-> request, fd |-> fd, ret |-> r.ret, wrote |-> r.wrote, data |-> r.ws]

(* ------------------------------- shims --------------------------------- *)

fltr_ioctl_returns_flag(kinds, size, fd, ws) ==
    LET r == ioctl(kinds, size, fd, TIOCGWINSZ, ws)
    IN  [ret |-> IF r.ret = 0 THEN 1 ELSE 0, err |-> r.err, ws |-> r.ws,
         requests |-> <<Request(fd, TIOCGWINSZ, r)>>]

fltr_ioctl_clears_first(kinds, size, fd, ws) ==
    LET r == ioctl(kinds, size, fd, TIOCGWINSZ, ZeroWinsize)
    IN  [ret |-> r.ret, err |-> r.err, ws |-> r.ws,
         requests |-> <<Request(fd, TIOCGWINSZ, r)>>]

fltr_ioctl_defaults(kinds, size, fd, ws) ==
    LET r == ioctl(kinds, size, fd, TIOCGWINSZ, ws)
        w == IF r.ret = 0 /\ (r.ws.ws_row = 0 \/ r.ws.ws_col = 0)
             THEN winsize(24, 80, r.ws.ws_xpixel, r.ws.ws_ypixel) ELSE r.ws
    IN  [ret |-> r.ret, err |-> r.err, ws |-> w,
         requests |-> <<Request(fd, TIOCGWINSZ, r)>>]

fltr_ioctl_retries(kinds, size, fd, ws) ==
    LET r1 == ioctl(kinds, size, fd, TIOCGWINSZ, ws)
        r2 == ioctl(kinds, size, fd, TIOCGWINSZ, r1.ws)
    IN  IF r1.ret < 0
        THEN [ret |-> r2.ret, err |-> r2.err, ws |-> r2.ws,
              requests |-> <<Request(fd, TIOCGWINSZ, r1), Request(fd, TIOCGWINSZ, r2)>>]
        ELSE [ret |-> r1.ret, err |-> r1.err, ws |-> r1.ws,
              requests |-> <<Request(fd, TIOCGWINSZ, r1)>>]

\* static inline int fltr_ioctl_TIOCGWINSZ(int fd, struct winsize *ws)
\*     { return ioctl(fd, TIOCGWINSZ, ws); }
\* The call's outcome when *ws holds `ws`: the int returned, the errno set,
\* *ws afterwards, and the OS requests issued, in order.
fltr_ioctl_TIOCGWINSZ(kinds, size, fd, ws) ==
    LET r == ioctl(kinds, size, fd, TIOCGWINSZ, ws)
    IN  [ret |-> r.ret, err |-> r.err, ws |-> r.ws,
         requests |-> <<Request(fd, TIOCGWINSZ, r)>>]

bokeh_ioctl_negates(kinds, size, fd, ws) ==
    LET r == ioctl(kinds, size, fd, TIOCGWINSZ, ws)
    IN  [ret |-> 0 - r.ret, err |-> r.err, ws |-> r.ws,
         requests |-> <<Request(fd, TIOCGWINSZ, r)>>]

\* static inline int bokeh_ioctl_TIOCGWINSZ(int fd, struct winsize *ws)
\*     { return ioctl(fd, TIOCGWINSZ, ws); }
bokeh_ioctl_TIOCGWINSZ(kinds, size, fd, ws) ==
    LET r == ioctl(kinds, size, fd, TIOCGWINSZ, ws)
    IN  [ret |-> r.ret, err |-> r.err, ws |-> r.ws,
         requests |-> <<Request(fd, TIOCGWINSZ, r)>>]

setVMIN_writes_VTIME(mem, t, value) == [mem EXCEPT ![t].c_cc[VTIME] = value]

setVMIN_resets_VTIME(mem, t, value) ==
    [mem EXCEPT ![t].c_cc[VMIN] = value, ![t].c_cc[VTIME] = 0]

setVMIN_sets_flag(mem, t, value) ==
    [mem EXCEPT ![t].c_cc[VMIN] = value, ![t].c_lflag = 0]

\* static inline void fltr_termios_setVMIN(struct termios *t, cc_t value)
\*     { t->c_cc[VMIN] = value; }
\* `mem` is the callers' memory and `t` the address of the record.
fltr_termios_setVMIN(mem, t, value) == [mem EXCEPT ![t].c_cc[VMIN] = value]

\* static inline void fltr_termios_setVTIME(struct termios *t, cc_t value)
\*     { t->c_cc[VTIME] = value; }
fltr_termios_setVTIME(mem, t, value) == [mem EXCEPT ![t].c_cc[VTIME] = value]

ArgSlotStatic(self) == 1
\* Where a call keeps its arguments: the functions are static inline with
\* automatic storage only, so each call has the calling thread's own frame.
ArgSlot(self) == self

(* ------------------------------- states -------------------------------- *)

\* Argument storage no call is using.
NoFrame(s) == [shim |-> "none", fd |-> 0, ws |-> s]

\* The last call thread t made.
Last(t) == IF hist[t] = <<>> THEN NoCall ELSE hist[t][Len(hist[t])]

Init ==
    /\ platform \in Platforms
    /\ fdKind = (0 :> "tty" @@ 1 :> "file" @@ 2 :> "closed")
    /\ ttySize \in Sizes
    /\ init0 \in {[termios |-> ZeroTermios, ws |-> ZeroWinsize],
                  [termios |-> PriorTermios, ws |-> PriorWinsize]}
    /\ termiosMem = [t \in Threads |-> init0.termios]
    /\ wsMem = [t \in Threads |-> init0.ws]
    /\ frame = [s \in Threads |-> NoFrame(s)]
    /\ pc = [t \in Threads |-> "idle"]
    /\ status = [t \in Threads |-> NoStatus]
    /\ errno = [t \in Threads |-> "none"]
    /\ hist = [t \in Threads |-> <<>>]
    /\ pre = [t \in Threads |-> init0]
    /\ oslog = [t \in Threads |-> <<>>]
    /\ calls = 0

\* Entry of any call by `self`: what the caller's records held, and a fresh log.
Enter(self, call) ==
    /\ pc[self] = "idle"
    /\ calls < MaxCalls
    /\ calls' = calls + 1
    /\ hist' = [hist EXCEPT ![self] = Append(@, call)]
    /\ pre' = [pre EXCEPT ![self] = [termios |-> termiosMem[self], ws |-> wsMem[self]]]
    /\ oslog' = [oslog EXCEPT ![self] = <<>>]

\* Thread `self` calls fltr_termios_setVMIN(&its termios, v).
SetVMIN(self, v) ==
    /\ Enter(self, Call("setVMIN", "fltr", v))
    /\ termiosMem' = fltr_termios_setVMIN(termiosMem, self, v)
    /\ UNCHANGED <<platform, fdKind, ttySize, init0, wsMem, frame, pc, status, errno>>

\* Thread `self` calls fltr_termios_setVTIME(&its termios, v).
SetVTIME(self, v) ==
    /\ Enter(self, Call("setVTIME", "fltr", v))
    /\ termiosMem' = fltr_termios_setVTIME(termiosMem, self, v)
    /\ UNCHANGED <<platform, fdKind, ttySize, init0, wsMem, frame, pc, status, errno>>

\* Thread `self` calls <shim>_ioctl_TIOCGWINSZ(fd, &its winsize): the
\* arguments are bound.
CallGetWinsize(self, shim, fd) ==
    /\ Enter(self, Call("winsize", shim, fd))
    /\ frame' = [frame EXCEPT ![ArgSlot(self)] = [shim |-> shim, fd |-> fd, ws |-> self]]
    /\ pc' = [pc EXCEPT ![self] = "called"]
    /\ status' = [status EXCEPT ![self] = NoStatus]
    /\ UNCHANGED <<platform, fdKind, ttySize, init0, termiosMem, wsMem, errno>>

\* The wrapper named by `shim`.
Shim(shim, kinds, size, fd, ws) ==
    IF shim = "bokeh" THEN bokeh_ioctl_TIOCGWINSZ(kinds, size, fd, ws)
    ELSE fltr_ioctl_TIOCGWINSZ(kinds, size, fd, ws)

\* The body of the wrapper runs on the bound arguments, the OS request is
\* made, the caller has the returned status and the arguments are gone.
RunGetWinsize(self) ==
    /\ pc[self] = "called"
    /\ LET f == frame[ArgSlot(self)]
           r == Shim(f.shim, fdKind, ttySize, f.fd, wsMem[f.ws])
       IN  /\ wsMem' = [wsMem EXCEPT ![f.ws] = r.ws]
           /\ status' = [status EXCEPT ![self] = r.ret]
           /\ errno' = [errno EXCEPT ![self] = IF r.err = "none" THEN @ ELSE r.err]
           /\ oslog' = [oslog EXCEPT ![self] = r.requests]
    /\ hist' = [hist EXCEPT ![self][Len(hist[self])].size =
                   IF fdKind[Last(self).arg] = "tty" THEN ttySize ELSE ZeroWinsize]
    /\ frame' = [frame EXCEPT ![ArgSlot(self)] = NoFrame(ArgSlot(self))]
    /\ pc' = [pc EXCEPT ![self] = "idle"]
    /\ UNCHANGED <<platform, fdKind, ttySize, init0, termiosMem, pre, calls>>

\* The terminal is resized (or its size is first set).
Resize(size) ==
    /\ ttySize # size
    /\ ttySize' = size
    /\ UNCHANGED <<platform, fdKind, init0, termiosMem, wsMem, frame, pc, status,
                   errno, hist, pre, oslog, calls>>

Next ==
    \/ \E self \in Threads, v \in Values : SetVMIN(self, v)
    \/ \E self \in Threads, v \in Values : SetVTIME(self, v)
    \/ \E self \in Threads, shim \in {"fltr", "bokeh"}, fd \in FDs :
           CallGetWinsize(self, shim, fd)
    \/ \E self \in Threads : RunGetWinsize(self)
    \/ \E size \in Sizes : Resize(size)

Spec == Init /\ [][Next]_vars

(* ------------------------- sequential execution ------------------------ *)

\* One call of thread t run to completion on memory m.
ApplyCall(m, t, c) ==
    IF c.op = "setVMIN"
    THEN [m EXCEPT !.termios = fltr_termios_setVMIN(m.termios, t, c.arg)]
    ELSE IF c.op = "setVTIME"
    THEN [m EXCEPT !.termios = fltr_termios_setVTIME(m.termios, t, c.arg)]
    ELSE LET r == Shim(c.shim, fdKind, c.size, c.arg, m.ws[t])
         IN  [m EXCEPT !.ws[t] = r.ws, !.status[t] = r.ret]

RECURSIVE RunCalls(_, _, _)
\* The calls h of thread t run one after another on memory m.
RunCalls(m, t, h) ==
    IF h = <<>> THEN m ELSE RunCalls(ApplyCall(m, t, Head(h)), t, Tail(h))

\* The callers' memory before any call.
Memory0 ==
    [termios |-> [t \in Threads |-> init0.termios],
     ws |-> [t \in Threads |-> init0.ws],
     status |-> [t \in Threads |-> NoStatus]]

\* All calls made so far run one after another: those of thread a, then
\* those of thread b.
Sequential(a, b) == RunCalls(RunCalls(Memory0, a, hist[a]), b, hist[b])

(* ------------------------------- claims -------------------------------- *)

\* Thread t's last call was `op` and has returned.
Done(t, op) == pc[t] = "idle" /\ Last(t).op = op

\* The argument of thread t's last call of `op`, or `initial` if it made none.
LastArg(t, op, initial) ==
    LET at == {i \in DOMAIN hist[t] : hist[t][i].op = op}
    IN  IF at = {} THEN initial
        ELSE hist[t][CHOOSE i \in at : \A j \in at : j <= i].arg

\* C1: after fltr_termios_setVMIN(t, v) the slot t.c_cc[VMIN] reads back v,
\* and after fltr_termios_setVTIME(t, v) the slot t.c_cc[VTIME] reads back v,
\* whatever the record held before.
C1_RoundTrip ==
    \A t \in Threads :
        /\ Done(t, "setVMIN") => termiosMem[t].c_cc[VMIN] = Last(t).arg
        /\ Done(t, "setVTIME") => termiosMem[t].c_cc[VTIME] = Last(t).arg

C1_Witness ==
    \E t, u \in Threads :
        /\ init0.termios = PriorTermios
        /\ Done(t, "setVMIN") /\ Last(t).arg = MaxValue
        /\ termiosMem[t].c_cc[VMIN] = MaxValue
        /\ Done(u, "setVTIME") /\ Last(u).arg = 0
        /\ termiosMem[u].c_cc[VTIME] = 0

\* C2: after any sequence of setter calls on a record, in any order, its
\* VMIN slot holds the argument of the last setVMIN call (its initial value
\* if there was none) and its VTIME slot that of the last setVTIME call.
C2_SettersIndependent ==
    \A t \in Threads :
        /\ termiosMem[t].c_cc[VMIN] = LastArg(t, "setVMIN", init0.termios.c_cc[VMIN])
        /\ termiosMem[t].c_cc[VTIME] = LastArg(t, "setVTIME", init0.termios.c_cc[VTIME])

C2_Witness ==
    \E t \in Threads :
        /\ Len(hist[t]) = 2
        /\ hist[t][1].op = "setVTIME" /\ hist[t][1].arg = 1
        /\ hist[t][2].op = "setVMIN" /\ hist[t][2].arg = 2
        /\ termiosMem[t].c_cc[VTIME] = 1
        /\ termiosMem[t].c_cc[VMIN] = 2

\* The two termios records agree everywhere but at slot `slot` of c_cc.
SameBut(a, b, slot) ==
    /\ a.c_iflag = b.c_iflag /\ a.c_oflag = b.c_oflag
    /\ a.c_cflag = b.c_cflag /\ a.c_lflag = b.c_lflag
    /\ a.c_ispeed = b.c_ispeed /\ a.c_ospeed = b.c_ospeed
    /\ DOMAIN a.c_cc = DOMAIN b.c_cc
    /\ \A i \in DOMAIN a.c_cc : i # slot => a.c_cc[i] = b.c_cc[i]

\* C3: a setter call changes one slot only: every other element of c_cc and
\* every other field is as before the call.  From an all-zero record,
\* setVMIN(1) then setVTIME(2) gives VMIN = 1, VTIME = 2, all else zero.
C3_SetterFrame ==
    \A t \in Threads :
        /\ Done(t, "setVMIN") => SameBut(termiosMem[t], pre[t].termios, VMIN)
        /\ Done(t, "setVTIME") => SameBut(termiosMem[t], pre[t].termios, VTIME)
        /\ ( /\ init0.termios = ZeroTermios
             /\ Len(hist[t]) = 2
             /\ hist[t][1].op = "setVMIN" /\ hist[t][1].arg = 1
             /\ hist[t][2].op = "setVTIME" /\ hist[t][2].arg = 2 )
           => /\ termiosMem[t].c_cc[VMIN] = 1
              /\ termiosMem[t].c_cc[VTIME] = 2
              /\ \A i \in DOMAIN termiosMem[t].c_cc :
                     i \notin {VMIN, VTIME} => termiosMem[t].c_cc[i] = 0
              /\ termiosMem[t].c_iflag = 0 /\ termiosMem[t].c_oflag = 0
              /\ termiosMem[t].c_cflag = 0 /\ termiosMem[t].c_lflag = 0
              /\ termiosMem[t].c_ispeed = 0 /\ termiosMem[t].c_ospeed = 0

C3_Witness ==
    \E t, u \in Threads :
        /\ init0.termios = ZeroTermios
        /\ Len(hist[t]) = 2
        /\ hist[t][1].op = "setVMIN" /\ hist[t][1].arg = 1
        /\ hist[t][2].op = "setVTIME" /\ hist[t][2].arg = 2
        /\ termiosMem[t].c_cc[VMIN] = 1 /\ termiosMem[t].c_cc[VTIME] = 2
        /\ termiosMem[u] = ZeroTermios

C3_WitnessPrior ==
    \E t \in Threads :
        /\ init0.termios = PriorTermios
        /\ Done(t, "setVMIN")
        /\ termiosMem[t] # pre[t].termios
        /\ termiosMem[t].c_lflag = PriorTermios.c_lflag

\* C4: the int fltr_ioctl_TIOCGWINSZ returns is the int the OS request
\* returned: 0 for success, the failure value unchanged.
C4_StatusVerbatim ==
    \A t \in Threads :
        (Done(t, "winsize") /\ Last(t).shim = "fltr") =>
            /\ oslog[t] # <<>>
            /\ status[t] = oslog[t][Len(oslog[t])].ret
            /\ oslog[t][Len(oslog[t])].wrote <=> status[t] = 0

C4_Witness ==
    \E t, u \in Threads :
        /\ Done(t, "winsize") /\ Last(t).shim = "fltr"
        /\ oslog[t] # <<>> /\ oslog[t][1].ret = 0 /\ status[t] = 0
        /\ Done(u, "winsize") /\ Last(u).shim = "fltr"
        /\ oslog[u] # <<>> /\ oslog[u][1].ret = -1 /\ status[u] = -1

\* C5: on a closed descriptor get-window-size returns a negative status and
\* the caller's size record is exactly as it was before the call.
C5_InvalidFdLeavesRecord ==
    \A t \in Threads :
        (Done(t, "winsize") /\ fdKind[Last(t).arg] = "closed") =>
            /\ status[t] < 0
            /\ wsMem[t] = pre[t].ws

C5_Witness ==
    \E t, u \in Threads :
        /\ init0.ws = PriorWinsize
        /\ Done(t, "winsize") /\ Last(t).shim = "fltr"
        /\ fdKind[Last(t).arg] = "closed"
        /\ status[t] = -1 /\ errno[t] = "EBADF" /\ wsMem[t] = PriorWinsize
        /\ Done(u, "winsize") /\ Last(u).shim = "bokeh"
        /\ fdKind[Last(u).arg] = "closed"
        /\ status[u] = -1 /\ wsMem[u] = PriorWinsize

\* C6 as claimed: on a terminal descriptor get-window-size returns a
\* non-negative status and leaves strictly positive row and column counts.
C6_PositiveSize ==
    \A t \in Threads :
        (Done(t, "winsize") /\ fdKind[Last(t).arg] = "tty") =>
            /\ status[t] >= 0
            /\ wsMem[t].ws_row > 0
            /\ wsMem[t].ws_col > 0

\* C6 amended: on a terminal descriptor get-window-size returns a
\* non-negative status and leaves in the record the row and column counts
\* the OS held for the terminal when the request was made: strictly positive
\* when the terminal has a size, zero when it has none.
C6_SizeAsReported ==
    \A t \in Threads :
        (Done(t, "winsize") /\ fdKind[Last(t).arg] = "tty") =>
            /\ status[t] >= 0
            /\ wsMem[t].ws_row = Last(t).size.ws_row
            /\ wsMem[t].ws_col = Last(t).size.ws_col
            /\ (Last(t).size.ws_row > 0 /\ Last(t).size.ws_col > 0)
                   => (wsMem[t].ws_row > 0 /\ wsMem[t].ws_col > 0)

C6_Witness ==
    \E t, u \in Threads :
        /\ init0.ws = PriorWinsize
        /\ Done(t, "winsize") /\ fdKind[Last(t).arg] = "tty"
        /\ status[t] = 0 /\ wsMem[t].ws_row = 0 /\ wsMem[t].ws_col = 0
        /\ Done(u, "winsize") /\ fdKind[Last(u).arg] = "tty"
        /\ status[u] = 0 /\ wsMem[u].ws_row > 0 /\ wsMem[u].ws_col > 0

\* Thread t's records and status are those of memory m.
AsIn(m, t) ==
    /\ termiosMem[t] = m.termios[t]
    /\ wsMem[t] = m.ws[t]
    /\ status[t] = m.status[t]

\* C7: whatever the interleaving of the threads' calls, each on its own
\* records, a thread whose calls have returned finds its records and status
\* as if all calls had run one after another, in either order of the
\* threads: no call touches memory other than the record passed to it.
C7_ThreadSafe ==
    LET m12 == Sequential(1, 2)
        m21 == Sequential(2, 1)
    IN  \A t \in Threads : pc[t] = "idle" => AsIn(m12, t) /\ AsIn(m21, t)

C7_Witness ==
    \E t, u \in Threads :
        /\ t # u
        /\ pc[t] = "called" /\ Last(t).arg = 0 /\ ttySize # ZeroWinsize
        /\ Done(u, "winsize") /\ Last(u).arg = 2
        /\ init0.ws = PriorWinsize /\ wsMem[u] = PriorWinsize /\ status[u] = -1

C7_WitnessBoth ==
    \E t, u \in Threads :
        /\ t # u
        /\ Done(t, "winsize") /\ fdKind[Last(t).arg] = "tty"
        /\ Done(u, "winsize") /\ fdKind[Last(u).arg] = "closed"
        /\ wsMem[t] # wsMem[u] /\ status[t] # status[u]

\* C8: a get-window-size call issues exactly one OS request, TIOCGWINSZ on
\* the descriptor given, whether it succeeds or fails; the setters issue
\* none; the call's only effect on the caller's records is what the OS
\* wrote into the size record.
C8_OneRequest ==
    \A t \in Threads :
        /\ pc[t] = "called" => oslog[t] = <<>>
        /\ (Done(t, "setVMIN") \/ Done(t, "setVTIME")) =>
               oslog[t] = <<>> /\ wsMem[t] = pre[t].ws
        /\ Done(t, "winsize") =>
               /\ Len(oslog[t]) = 1
               /\ oslog[t][1].request = TIOCGWINSZ
               /\ oslog[t][1].fd = Last(t).arg
               /\ termiosMem[t] = pre[t].termios
               /\ wsMem[t] = IF oslog[t][1].wrote THEN oslog[t][1].data ELSE pre[t].ws

C8_Witness ==
    \E t, u \in Threads :
        /\ Done(t, "winsize") /\ Len(oslog[t]) = 1 /\ oslog[t][1].ret = -1
        /\ errno[t] = "ENOTTY"
        /\ Done(u, "winsize") /\ Len(oslog[u]) = 1 /\ oslog[u][1].ret = 0
        /\ oslog[u][1].wrote /\ wsMem[u] # pre[u].ws

\* C9: on macOS c_cc has 20 elements, VMIN = 16 and VTIME = 17; on Linux it
\* has 32, VMIN = 6 and VTIME = 5.  Both indices lie inside the array and
\* differ, so a setter call writes inside c_cc and never the other slot.
C9_SlotsValid ==
    /\ platform = "macos" => NCCS = 20 /\ VMIN = 16 /\ VTIME = 17
    /\ platform = "linux" => NCCS = 32 /\ VMIN = 6 /\ VTIME = 5
    /\ 0 <= VMIN /\ VMIN < NCCS
    /\ 0 <= VTIME /\ VTIME < NCCS
    /\ VMIN # VTIME
    /\ \A t \in Threads :
           /\ DOMAIN termiosMem[t].c_cc = 0..(NCCS - 1)
           /\ {VMIN, VTIME} \subseteq DOMAIN termiosMem[t].c_cc
           /\ Done(t, "setVMIN") =>
                  termiosMem[t].c_cc[VTIME] = pre[t].termios.c_cc[VTIME]
           /\ Done(t, "setVTIME") =>
                  termiosMem[t].c_cc[VMIN] = pre[t].termios.c_cc[VMIN]

C9_Witness ==
    \E t \in Threads :
        /\ platform = "linux"
        /\ Len(hist[t]) = 2
        /\ hist[t][1].op = "setVTIME" /\ hist[t][2].op = "setVMIN"
        /\ hist[t][1].arg # hist[t][2].arg
        /\ termiosMem[t].c_cc[5] = hist[t][1].arg
        /\ termiosMem[t].c_cc[6] = hist[t][2].arg

C9_WitnessMac ==
    \E t \in Threads :
        /\ platform = "macos"
        /\ Done(t, "setVMIN") /\ Last(t).arg = 1
        /\ termiosMem[t].c_cc[16] = 1

\* C10: for every descriptor, initial size record and OS response,
\* bokeh_ioctl_TIOCGWINSZ and fltr_ioctl_TIOCGWINSZ return the same status
\* and leave the same record; calls made through the two wrappers with the
\* same arguments and the same OS response end alike.
C10_WrappersEquivalent ==
    /\ \A fd \in FDs \cup {3}, t \in Threads :
           bokeh_ioctl_TIOCGWINSZ(fdKind, ttySize, fd, wsMem[t])
               = fltr_ioctl_TIOCGWINSZ(fdKind, ttySize, fd, wsMem[t])
    /\ \A t, u \in Threads :
           ( /\ Done(t, "winsize") /\ Last(t).shim = "fltr"
             /\ Done(u, "winsize") /\ Last(u).shim = "bokeh"
             /\ Last(t).arg = Last(u).arg
             /\ Last(t).size = Last(u).size
             /\ pre[t].ws = pre[u].ws )
           => (status[t] = status[u] /\ wsMem[t] = wsMem[u] /\ oslog[t] = oslog[u])

C10_Witness ==
    \E t, u \in Threads :
        /\ Done(t, "winsize") /\ Last(t).shim = "fltr"
        /\ Done(u, "winsize") /\ Last(u).shim = "bokeh"
        /\ Last(t).arg = 0 /\ Last(u).arg = 0
        /\ Last(t).size = Last(u).size /\ Last(t).size # ZeroWinsize
        /\ init0.ws = PriorWinsize
        /\ status[t] = 0 /\ status[u] = 0
        /\ wsMem[t] = wsMem[u] /\ wsMem[t] = Last(t).size

C10_WitnessFailure ==
    \E t, u \in Threads :
        /\ Done(t, "winsize") /\ Last(t).shim = "fltr"
        /\ Done(u, "winsize") /\ Last(u).shim = "bokeh"
        /\ Last(t).arg = 1 /\ Last(u).arg = 1
        /\ status[t] = -1 /\ status[u] = -1

====
